---- MODULE Spec2Model ----
(***************************************************************************)
(* Telemetry ingestion pipeline: schema casting (validate.py), rule        *)
(* engine (rules.py), batch loader and reject sink (load.py) and the       *)
(* orchestrator (main.py).                                                 *)
(*                                                                         *)
(* Pure functions of the source are operators; every entry point is one    *)
(* action that applies the whole handler.  The relational store is the     *)
(* record `store`; its failures are chosen nondeterministically.           *)
(***************************************************************************)
EXTENDS Integers, Sequences, FiniteSets, TLC

VARIABLES
    pc,      \* control position of the entry point being exercised
    args,    \* arguments of the call (df, schema, rules, batch_size, ...)
    ret,     \* what the call returned or raised
    store,   \* the relational store: target table, stg_rejects, event log
    run,     \* locals of run_all_sources: sources, loop index, results, result
    stats,   \* stats dict of the current run_telemetry_ingestion
    local    \* other locals of run_telemetry_ingestion: df, all_rejects, ...

vars == <<pc, args, ret, store, run, stats, local>>

(***************************************************************************)
(* Bounds of the model.                                                    *)
(***************************************************************************)
MaxRows == 3      \* longest dataset handed to load_dataframe
MaxBatch == 2     \* largest batch_size tried
MaxSchemaRows == 2  \* longest dataset handed to apply_schema
MaxRuleRows == 2  \* longest dataset handed to apply_rules
MaxCsvRows == 2   \* longest file read by a source run
MaxRules == 2     \* longest rule list
MaxRejects == 2   \* longest reject list handed to write_rejects
MaxSources == 2   \* longest source list of a configuration

None == "None"

(***************************************************************************)
(* Sequence helpers.                                                       *)
(***************************************************************************)
Range(s) == {s[i] : i \in DOMAIN s}

SeqsUpTo(S, n) == UNION {[1..k -> S] : k \in 0..n}

InjSeqs(S, n) == {s \in [1..n -> S] : \A i, j \in 1..n : s[i] = s[j] => i = j}

Min(a, b) == IF a < b THEN a ELSE b

(***************************************************************************)
(* Cell values.  A cell is null (NaN / None), a string, an int, a float    *)
(* (kept in tenths), or a bool.                                            *)
(***************************************************************************)
Null == [k |-> "null", v |-> 0, s |-> ""]
Str(t) == [k |-> "str", v |-> 0, s |-> t]
IntV(n) == [k |-> "int", v |-> n, s |-> ""]
FloatV(tenths) == [k |-> "float", v |-> tenths, s |-> ""]
BoolV(b) == [k |-> "bool", v |-> IF b THEN 1 ELSE 0, s |-> ""]

\* pd.isna(value)
IsNa(c) == c.k = "null"

(***************************************************************************)
(* Column names are sequences of characters, so that normalize_columns     *)
(* can be modelled by what it does to them.                                *)
(***************************************************************************)
cRPM == <<"R", "P", "M">>
cRpm == <<"r", "p", "m">>
cNGear == <<"n", "G", "e", "a", "r">>
cN_Gear == <<"n", "_", "g", "e", "a", "r">>
cId == <<"i", "d">>

(***************************************************************************)
(* The store (psycopg connection, load.py).                                *)
(***************************************************************************)

\* range(start, stop, step) for step # 0 (load.py:86)
RECURSIVE PyRange(_, _, _)
PyRange(start, stop, step) ==
    IF step > 0
    THEN IF start < stop THEN <<start>> \o PyRange(start + step, stop, step) ELSE <<>>
    ELSE IF start > stop THEN <<start>> \o PyRange(start + step, stop, step) ELSE <<>>

\* A slice that leaves out the last row of the range.
ILocDropsLast(rows, start_idx, end_idx) == SubSeq(rows, start_idx + 1, end_idx - 1)

\* df.iloc[start_idx:end_idx] on 0-based positions (load.py:88)
ILoc(rows, start_idx, end_idx) == SubSeq(rows, start_idx + 1, end_idx)

\* the key of a row under the conflict columns
KeyOf(row, primary_keys) == [i \in DOMAIN primary_keys |-> row[primary_keys[i]]]

\* update_cols (load.py:66): the columns that are not conflict columns
UpdateCols(columns, primary_keys) == columns \ Range(primary_keys)

\* The statement the store is sent parses: with conflict columns and no
\* column left to update, the text ends in "DO UPDATE SET" with nothing
\* after it (load.py:64-73), which the store rejects.
QueryValid(columns, primary_keys) ==
    primary_keys = <<>> \/ UpdateCols(columns, primary_keys) # {}

\* An insert that never meets a conflict.
InsertRowAlwaysAppends(tbl, row, primary_keys) == Append(tbl, row)

\* One INSERT ... [ON CONFLICT (pk) DO UPDATE SET ...] of one row (load.py:63-75)
InsertRow(tbl, row, primary_keys) ==
    IF Len(primary_keys) > 0
       /\ \E i \in DOMAIN tbl : KeyOf(tbl[i], primary_keys) = KeyOf(row, primary_keys)
    THEN [i \in DOMAIN tbl |->
            IF KeyOf(tbl[i], primary_keys) = KeyOf(row, primary_keys) THEN row ELSE tbl[i]]
    ELSE Append(tbl, row)

\* cursor.executemany(query, rows): the statement once per row, in order
RECURSIVE ExecuteMany(_, _, _)
ExecuteMany(tbl, rows, primary_keys) ==
    IF rows = <<>> THEN tbl
    ELSE ExecuteMany(InsertRow(tbl, Head(rows), primary_keys), Tail(rows), primary_keys)

\* conn.commit(): the transaction's view becomes the table (load.py:26)
Commit(tbl, txn) == txn

\* The table with rows of the open transaction kept.
OnExceptionKeepsBatches(tbl, txn) == txn

\* except/finally of get_db_connection: conn.rollback(), conn.close(), raise
\* (load.py:29-39).  The table is what it was before the transaction.
OnException(tbl, txn) == tbl

\* What the store does to one call: connect fails, the exec-th executemany
\* fails (0: none), commit fails.  A statement that does not parse fails
\* whatever the store's disposition.
Faults == [connect : BOOLEAN, exec : 0..(MaxRows + 1), commit : BOOLEAN]
NoFaults == [connect |-> FALSE, exec |-> 0, commit |-> FALSE]

\* Loop of load.py:86-97 over the batch starts still to run; k numbers the
\* batch.  Returns the transaction's view, rows_processed and the event log.
RECURSIVE RunBatches(_, _, _, _, _, _, _, _)
RunBatches(starts, k, rows, batch_size, primary_keys, f, txn, acc) ==
    IF starts = <<>> THEN [ok |-> TRUE, txn |-> txn, rows_processed |-> acc.n, log |-> acc.log]
    ELSE LET start_idx == Head(starts)
             end_idx == Min(start_idx + batch_size, Len(rows))
             batch == ILoc(rows, start_idx, end_idx)
         IN IF f.exec = k \/ (batch # <<>> /\ ~QueryValid(DOMAIN Head(batch), primary_keys))
            THEN [ok |-> FALSE, txn |-> txn, rows_processed |-> acc.n,
                  log |-> Append(acc.log, [ev |-> "exec_failed", rows |-> batch])]
            ELSE RunBatches(Tail(starts), k + 1, rows, batch_size, primary_keys, f,
                            ExecuteMany(txn, batch, primary_keys),
                            [n |-> acc.n + Len(batch),
                             log |-> Append(acc.log, [ev |-> "exec", rows |-> batch])])

Ev(e) == [ev |-> e, rows |-> <<>>]

\* A dataset that is never taken to be empty.
NeverEmpty(rows) == FALSE

\* df.empty (load.py:53)
DfEmpty(rows) == rows = <<>>

\* The connection left open when the context manager exits.
FinallyLeavesOpen(log) == log

\* finally of get_db_connection: conn.close() (load.py:36-39); reached only
\* when connect() returned a connection.
Finally(log) == Append(log, Ev("close"))

\* load_dataframe(df, table, primary_keys, db_url, batch_size) (load.py:42-99).
\* rows: the dataset's rows in order; tbl: the target table before the call.
LoadDataframe(tbl, rows, primary_keys, batch_size, f) ==
    IF DfEmpty(rows)
    THEN [outcome |-> "returned", error |-> None, inserted |-> 0, total |-> 0,
          table |-> tbl, log |-> <<>>]
    ELSE
    LET total_rows == Len(rows) IN
    IF f.connect
    THEN [outcome |-> "raised", error |-> "OperationalError", inserted |-> 0,
          total |-> total_rows, table |-> tbl, log |-> <<Ev("connect_failed")>>]
    ELSE IF batch_size = 0
    THEN \* range() arg 3 must not be zero: raised inside the with block
         [outcome |-> "raised", error |-> "ValueError", inserted |-> 0,
          total |-> total_rows, table |-> OnException(tbl, tbl),
          log |-> Finally(<<Ev("connect"), Ev("rollback")>>)]
    ELSE
    LET b == RunBatches(PyRange(0, total_rows, batch_size), 1, rows, batch_size,
                        primary_keys, f, tbl, [n |-> 0, log |-> <<Ev("connect")>>])
    IN IF ~b.ok
       THEN [outcome |-> "raised", error |-> "DatabaseError", inserted |-> b.rows_processed,
             total |-> total_rows, table |-> OnException(tbl, b.txn),
             log |-> Finally(Append(b.log, Ev("rollback")))]
       ELSE IF f.commit
       THEN [outcome |-> "raised", error |-> "DatabaseError", inserted |-> b.rows_processed,
             total |-> total_rows, table |-> OnException(tbl, b.txn),
             log |-> Finally(b.log \o <<Ev("commit_failed"), Ev("rollback")>>)]
       ELSE [outcome |-> "returned", error |-> None, inserted |-> b.rows_processed,
             total |-> total_rows, table |-> Commit(tbl, b.txn),
             log |-> Finally(Append(b.log, Ev("commit")))]

(***************************************************************************)
(* SpecLoad: load_dataframe called on any dataset, batch size, conflict    *)
(* key and target table, against a store that may fail any operation.      *)
(***************************************************************************)
LoaderRow(id, rpm) == [c \in {cId, cRpm} |-> IF c = cId THEN IntV(id) ELSE IntV(rpm)]
LoaderRows == {LoaderRow(id, rpm) : id \in {1, 2}, rpm \in {10, 25}}
BatchSizes == (-1)..MaxBatch

EmptyStore == [target |-> <<>>, stg_rejects |-> <<>>, log |-> <<>>]

InitLoad ==
    /\ pc = "call"
    /\ args \in [df : SeqsUpTo(LoaderRows, MaxRows),
                 primary_keys : {<<>>, <<cId>>, <<cId, cRpm>>},
                 batch_size : BatchSizes,
                 target0 : {<<>>, <<LoaderRow(1, 10)>>}]
    /\ ret = None
    /\ store = [EmptyStore EXCEPT !.target = args.target0]
    /\ run = None
    /\ stats = None
    /\ local = None

CallLoadDataframe ==
    /\ pc = "call"
    /\ \E f \in Faults :
         LET r == LoadDataframe(store.target, args.df, args.primary_keys, args.batch_size, f)
         IN /\ ret' = [outcome |-> r.outcome, error |-> r.error,
                       inserted |-> r.inserted, total |-> r.total]
            /\ store' = [store EXCEPT !.target = r.table, !.log = r.log]
    /\ pc' = "done"
    /\ UNCHANGED <<args, run, stats, local>>

\* The same call once more, on the table the first call left.
CallLoadDataframeAgain ==
    /\ pc = "done"
    /\ \E f \in Faults :
         LET r == LoadDataframe(store.target, args.df, args.primary_keys, args.batch_size, f)
         IN /\ ret' = [outcome |-> r.outcome, error |-> r.error,
                       inserted |-> r.inserted, total |-> r.total]
            /\ store' = [store EXCEPT !.target = r.table, !.log = r.log]
    /\ local' = [first |-> ret.outcome, once |-> store.target]
    /\ pc' = "done2"
    /\ UNCHANGED <<args, run, stats>>

NextLoad == CallLoadDataframe \/ CallLoadDataframeAgain

SpecLoad == InitLoad /\ [][NextLoad]_vars

(***************************************************************************)
(* Claims about load_dataframe (checked under SpecLoad).                   *)
(***************************************************************************)
LogHas(e) == \E i \in DOMAIN store.log : store.log[i].ev = e

AnyStepFailed == LogHas("connect_failed") \/ LogHas("exec_failed") \/ LogHas("commit_failed")

\* The rows of every executed batch, in execution order.
RECURSIVE ExecutedRows(_)
ExecutedRows(log) ==
    IF log = <<>> THEN <<>>
    ELSE (IF Head(log).ev = "exec" THEN Head(log).rows ELSE <<>>) \o ExecutedRows(Tail(log))

\* C4: when connecting, a batch or the commit fails, the call raises and the
\* target table holds exactly what it held before the call.
C4_RollbackOnFailure ==
    (pc = "done" /\ AnyStepFailed)
        => (ret.outcome = "raised" /\ store.target = args.target0)

\* A batch fails after an earlier batch of the same call was executed.
C4_Witness ==
    /\ pc = "done"
    /\ ret.outcome = "raised"
    /\ \E i, j \in DOMAIN store.log :
          i < j /\ store.log[i].ev = "exec" /\ store.log[j].ev = "exec_failed"
    /\ store.target = args.target0

\* C10: whenever load_dataframe returns, inserted = total = number of rows
\* and every row was executed in a batch before the commit.
C10_InsertedEqualsTotal ==
    (pc = "done" /\ ret.outcome = "returned")
        => /\ ret.inserted = ret.total
           /\ ret.total = Len(args.df)
           /\ ExecutedRows(store.log) = args.df

\* Positions of the log holding event e.
LogPositions(e) == {i \in DOMAIN store.log : store.log[i].ev = e}

\* The batches executed, in execution order.
ExecutedBatches == SelectSeq(store.log, LAMBDA x : x.ev = "exec")

\* ceil(n / batch_size) for a positive batch_size
CeilDiv(n, batch_size) == (n + batch_size - 1) \div batch_size

\* C11: the batches of one call run in one transaction on one connection:
\* at most one connection is opened and every statement runs on it; a commit
\* happens at most once, exactly once when the call returns after connecting,
\* and only after every batch of the loop has been executed; whenever a
\* connection was opened it is closed as the last event, right after the
\* commit when the call returns and right after the rollback when it raises.
C11_SingleTransaction ==
    pc = "done" =>
        LET log == store.log
            n == Len(log)
        IN /\ Cardinality(LogPositions("connect")) <= 1
           /\ Cardinality(LogPositions("commit")) <= 1
           /\ \A i \in DOMAIN log :
                 log[i].ev \notin {"connect", "connect_failed"} => (i > 1 /\ log[1].ev = "connect")
           /\ (ret.outcome = "returned" /\ log # <<>>) => LogHas("commit")
           /\ ret.outcome = "raised" => ~LogHas("commit")
           /\ \A i \in LogPositions("commit") :
                 /\ \A j \in DOMAIN log : log[j].ev \in {"exec", "exec_failed"} => j < i
                 /\ Len(ExecutedBatches)
                       = Len(PyRange(0, Len(args.df), args.batch_size))
           /\ LogHas("connect") =>
                 /\ LogPositions("close") = {n}
                 /\ log[n - 1].ev = (IF ret.outcome = "returned" THEN "commit" ELSE "rollback")

\* A call that executes two batches, commits and closes.
C11_Witness ==
    /\ pc = "done"
    /\ ret.outcome = "returned"
    /\ Len(ExecutedBatches) = 2
    /\ LogPositions("commit") = {Len(store.log) - 1}
    /\ LogPositions("close") = {Len(store.log)}

\* C12: for n rows and a positive batch size, a call that returns has
\* executed ceil(n / batch_size) batches, the k-th being the at most
\* batch_size consecutive rows from position (k-1) * batch_size on, so that
\* the batches in execution order make up the dataset, each row once.
C12_BatchesCoverDataset ==
    (pc = "done" /\ ret.outcome = "returned" /\ args.batch_size > 0) =>
        LET n == Len(args.df)
            bs == args.batch_size
            batches == ExecutedBatches
        IN /\ Len(batches) = CeilDiv(n, bs)
           /\ \A k \in DOMAIN batches :
                 /\ Len(batches[k].rows) <= bs
                 /\ batches[k].rows = SubSeq(args.df, (k - 1) * bs + 1, Min(k * bs, n))
           /\ ExecutedRows(store.log) = args.df

\* Three rows in batches of two: a full batch, then a batch of one row.
C12_Witness ==
    /\ pc = "done"
    /\ ret.outcome = "returned"
    /\ args.batch_size = 2
    /\ Len(args.df) = 3
    /\ Len(ExecutedBatches) = 2
    /\ Len(ExecutedBatches[2].rows) = 1

\* C15: on an empty dataset the call returns inserted = 0 and total = 0,
\* contacts the store not at all and leaves the target table as it was,
\* whatever the conflict key, the batch size and the store's disposition.
C15_EmptyDatasetShortcut ==
    (pc = "done" /\ args.df = <<>>) =>
        /\ ret = [outcome |-> "returned", error |-> None, inserted |-> 0, total |-> 0]
        /\ store.log = <<>>
        /\ store.target = args.target0

\* An empty dataset with a conflict key and a batch size of zero, against a
\* target table that already holds a row.
C15_Witness ==
    /\ pc = "done"
    /\ args.df = <<>>
    /\ args.batch_size = 0
    /\ args.primary_keys = <<cId>>
    /\ args.target0 # <<>>
    /\ ret.outcome = "returned"

\* The keys of the rows of a table or dataset under the conflict columns.
KeysOf(rows, primary_keys) == {KeyOf(rows[i], primary_keys) : i \in DOMAIN rows}

\* No two rows of the table have the same key: the unique constraint.
UniqueKeys(tbl, primary_keys) ==
    \A i, j \in DOMAIN tbl :
        KeyOf(tbl[i], primary_keys) = KeyOf(tbl[j], primary_keys) => i = j

\* The last row of rows with the key of rows[i].
LastWithKey(rows, i, primary_keys) ==
    rows[CHOOSE j \in DOMAIN rows :
            /\ KeyOf(rows[j], primary_keys) = KeyOf(rows[i], primary_keys)
            /\ \A k \in DOMAIN rows :
                  KeyOf(rows[k], primary_keys) = KeyOf(rows[i], primary_keys) => k <= j]

\* C26: after a second call with the same arguments has returned, with
\* conflict columns the table has one row per key, every executed row's key
\* holds the last incoming row of that key, rows of other keys are as they
\* were, and the table is the one the first call left when that call had
\* returned; without conflict columns the executed rows are appended again
\* to what the first call left.  For a positive batch size the executed rows
\* are the dataset.
C26_UpsertIdempotent ==
    (pc = "done2" /\ ret.outcome = "returned") =>
        LET pk == args.primary_keys
            executed == ExecutedRows(store.log)
        IN /\ args.batch_size > 0 => executed = args.df
           /\ pk # <<>> =>
                 /\ UniqueKeys(store.target, pk)
                 /\ KeysOf(store.target, pk) = KeysOf(local.once, pk) \cup KeysOf(executed, pk)
                 /\ \A i \in DOMAIN executed :
                       \E t \in DOMAIN store.target :
                           store.target[t] = LastWithKey(executed, i, pk)
                 /\ \A t \in DOMAIN local.once :
                       KeyOf(local.once[t], pk) \notin KeysOf(executed, pk)
                           => store.target[t] = local.once[t]
                 /\ local.first = "returned" => store.target = local.once
           /\ pk = <<>> =>
                 /\ store.target = local.once \o executed
                 /\ local.first = "returned"
                       => store.target = args.target0 \o executed \o executed

\* The same dataset is loaded twice under the conflict column id: the target
\* held a row of key 1 with another rpm, the dataset holds key 1 twice, and
\* the table after the second load is the table after the first.
C26_Witness ==
    /\ pc = "done2"
    /\ ret.outcome = "returned"
    /\ local.first = "returned"
    /\ args.primary_keys = <<cId>>
    /\ args.batch_size > 0
    /\ args.target0 = <<LoaderRow(1, 10)>>
    /\ \E i, j \in DOMAIN args.df :
          i < j /\ args.df[i] = LoaderRow(1, 10) /\ args.df[j] = LoaderRow(1, 25)
    /\ \E i \in DOMAIN args.df : args.df[i][cId] = IntV(2)
    /\ Len(store.target) = 2
    /\ store.target[1] = LoaderRow(1, 25)
    /\ store.target = local.once

(***************************************************************************)
(* TypeCaster (validate.py:9-86).                                          *)
(***************************************************************************)
DatetimeV(t) == [k |-> "datetime", v |-> 0, s |-> t]
TimedeltaV(t) == [k |-> "timedelta", v |-> 0, s |-> t]
\* float('inf'): a float that is not finite
InfV == [k |-> "float", v |-> 0, s |-> "inf"]

\* float(text) on the texts of the model: finite values in tenths.
NumericTexts == {"10", "25", "-1", "7", " 7", "10.9", "-0.5", "1", "0"}
TenthsOfText(t) ==
    CASE t = "10" -> 100
      [] t = "25" -> 250
      [] t = "-1" -> -10
      [] t = "7" -> 70
      [] t = " 7" -> 70
      [] t = "10.9" -> 109
      [] t = "-0.5" -> -5
      [] t = "1" -> 10
      [] t = "0" -> 0
      [] OTHER -> 0

\* str(n) for the ints of the model
TextOfInt(n) ==
    CASE n = 10 -> "10"
      [] n = 25 -> "25"
      [] n = -1 -> "-1"
      [] n = 7 -> "7"
      [] n = 1 -> "1"
      [] n = 0 -> "0"
      [] OTHER -> "int"

\* str(x) for the floats of the model (tenths)
TextOfTenths(x) ==
    CASE x = 109 -> "10.9"
      [] x = -5 -> "-0.5"
      [] x = 100 -> "10.0"
      [] x = 250 -> "25.0"
      [] x = -10 -> "-1.0"
      [] x = 70 -> "7.0"
      [] OTHER -> "float"

\* value.upper() on the texts of the model (validate.py:72)
UpperText(t) ==
    CASE t = "true" -> "TRUE"
      [] t = "yes" -> "YES"
      [] t = "false" -> "FALSE"
      [] OTHER -> t

\* texts pd.to_datetime / pd.to_timedelta parse
DatetimeTexts == {"2025-01-01"}
TimedeltaTexts == {"0 days 00:01:02"}

\* int(x) of a finite float kept in tenths: truncation toward zero.
TruncTenths(x) == IF x >= 0 THEN x \div 10 ELSE -((-x) \div 10)

Ok(val) == [outcome |-> "ok", val |-> val]
Raises(e) == [outcome |-> e, val |-> Null]

\* float(value) (validate.py:59, 62): the float, or the exception
ToFloat(c) ==
    CASE c.k = "str" ->
           IF c.s \in NumericTexts THEN Ok(FloatV(TenthsOfText(c.s)))
           ELSE IF c.s = "inf" THEN Ok(InfV)
           ELSE IF c.s = "nan" THEN Ok(Null)
           ELSE Raises("ValueError")
      [] c.k = "int" -> Ok(FloatV(c.v * 10))
      [] c.k = "bool" -> Ok(FloatV(c.v * 10))
      [] c.k = "float" -> Ok(c)
      [] OTHER -> Raises("ValueError")   \* TypeError, re-raised as ValueError

\* cast_to_type(value, target_type) (validate.py:37-86).  The outcome is "ok"
\* with the cast value, "ValueError" (raised by line 86), or an exception the
\* except clause of line 84 does not catch.
CastToType(c, target_type) ==
    IF IsNa(c) THEN Ok(c)
    ELSE CASE target_type = "int" ->
                LET f == ToFloat(c) IN
                IF f.outcome # "ok" THEN f
                ELSE IF IsNa(f.val) THEN Raises("ValueError")      \* int(nan)
                ELSE IF f.val.s = "inf" THEN Raises("OverflowError") \* int(inf)
                ELSE Ok(IntV(TruncTenths(f.val.v)))
           [] target_type = "float" -> ToFloat(c)
           [] target_type = "str" ->
                CASE c.k = "str" -> Ok(c)
                  [] c.k = "int" -> Ok(Str(TextOfInt(c.v)))
                  [] c.k = "float" -> Ok(Str(IF c.s = "inf" THEN "inf" ELSE TextOfTenths(c.v)))
                  [] c.k = "bool" -> Ok(Str(IF c.v = 1 THEN "True" ELSE "False"))
                  [] OTHER -> Ok(Str(c.s))
           [] target_type = "bool" ->
                CASE c.k = "bool" -> Ok(c)
                  [] c.k = "str" -> Ok(BoolV(UpperText(c.s) \in {"TRUE", "1", "YES"}))
                  [] c.k \in {"int", "float"} -> Ok(BoolV(c.v # 0 \/ c.s = "inf"))
                  [] OTHER -> Ok(BoolV(TRUE))
           [] target_type = "datetime" ->
                CASE c.k = "datetime" -> Ok(c)
                  [] c.k = "str" ->
                       IF c.s \in DatetimeTexts THEN Ok(DatetimeV(c.s)) ELSE Raises("ValueError")
                  [] c.k = "int" -> Ok(DatetimeV("epoch"))
                  [] OTHER -> Raises("ValueError")
           [] target_type = "timedelta" ->
                CASE c.k = "str" ->
                       IF c.s \in TimedeltaTexts THEN Ok(TimedeltaV(c.s)) ELSE Raises("ValueError")
                  [] OTHER -> Ok(c)
           [] OTHER -> Ok(c)

(***************************************************************************)
(* SchemaValidator: apply_schema (validate.py:89-154).                     *)
(*                                                                         *)
(* A dataset is [columns, index, data]: the column names in order, the     *)
(* row identities (index labels) in row order, and the row of each         *)
(* identity as a function from column name to cell.  A schema is the       *)
(* ordered list of its (col, dtype) items.                                 *)
(***************************************************************************)
Reject(idx, row, text, col) ==
    [index |-> idx, data |-> row, reason |-> [text |-> text, col |-> col]]

\* A row is cast whether or not it was rejected before.
NeverSkipped(idx, valid_indices) == FALSE

\* "if idx not in valid_indices: continue" (validate.py:124)
SchemaRowSkipped(idx, valid_indices) == idx \notin valid_indices

\* A cast value that is not stored in the dataset.
WriteBackDropped(data, idx, col, val) == data

\* df.at[idx, col] = <cast value> (validate.py:129): the dataset is changed
\* in place.
WriteBack(data, idx, col, val) == [data EXCEPT ![idx][col] = val]

\* The loop over df.index for one schema column (validate.py:122-138), from
\* position i on.  st is [data, valid, rejects, raised].
RECURSIVE CastColumn(_, _, _, _, _)
CastColumn(st, index, i, col, dtype) ==
    IF i > Len(index) \/ st.raised # None THEN st
    ELSE LET idx == index[i] IN
         IF SchemaRowSkipped(idx, st.valid) THEN CastColumn(st, index, i + 1, col, dtype)
         ELSE LET c == CastToType(st.data[idx][col], dtype) IN
              CASE c.outcome = "ok" ->
                     CastColumn([st EXCEPT !.data = WriteBack(@, idx, col, c.val)],
                                index, i + 1, col, dtype)
                [] c.outcome = "ValueError" ->
                     CastColumn([st EXCEPT
                                   !.valid = @ \ {idx},
                                   !.rejects = Append(@, Reject(idx, st.data[idx],
                                                  "Type casting failed for column", col))],
                                index, i + 1, col, dtype)
                [] OTHER -> [st EXCEPT !.raised = c.outcome]

\* The loop over schema.items() (validate.py:114-138), from item j on.
RECURSIVE CastSchema(_, _, _, _)
CastSchema(st, df, schema, j) ==
    IF j > Len(schema) \/ st.raised # None THEN st
    ELSE IF schema[j].col \notin Range(df.columns)
         THEN CastSchema([st EXCEPT !.skipped = @ \cup {schema[j].col}], df, schema, j + 1)
         ELSE CastSchema(CastColumn(st, df.index, 1, schema[j].col, schema[j].dtype),
                         df, schema, j + 1)

\* list(valid_indices): the iteration order of a set of small non-negative
\* ints, which CPython keeps in ascending order (validate.py:140).
RECURSIVE ListOfSet(_)
ListOfSet(S) ==
    IF S = {} THEN <<>>
    ELSE LET m == CHOOSE x \in S : \A y \in S : x <= y
         IN <<m>> \o ListOfSet(S \ {m})

\* valid_df[col].astype(...) for one schema item (validate.py:143-150): the
\* column's cells after the coercion, or the exception.
AsType(data, valid, col, dtype) ==
    CASE dtype = "int" ->
           IF \E idx \in valid : IsNa(data[idx][col])
           THEN [raised |-> "ValueError", data |-> data]   \* NaN to int64
           ELSE [raised |-> None, data |-> data]
      [] dtype = "bool" ->
           [raised |-> None,
            data |-> [idx \in DOMAIN data |->
                        IF idx \in valid /\ IsNa(data[idx][col])
                        THEN [data[idx] EXCEPT ![col] = BoolV(TRUE)]
                        ELSE data[idx]]]
      [] OTHER -> [raised |-> None, data |-> data]

RECURSIVE CoerceColumns(_, _, _, _, _)
CoerceColumns(data, valid, columns, schema, j) ==
    IF j > Len(schema) THEN [raised |-> None, data |-> data]
    ELSE IF schema[j].col \notin Range(columns)
         THEN CoerceColumns(data, valid, columns, schema, j + 1)
         ELSE LET a == AsType(data, valid, schema[j].col, schema[j].dtype) IN
              IF a.raised # None THEN a
              ELSE CoerceColumns(a.data, valid, columns, schema, j + 1)

\* What apply_schema returns or raises once the cast loop has left st and the
\* dtype coercion of the valid rows has given co (validate.py:140-154).
SchemaResult(df, st, co) ==
    IF st.raised # None
    THEN [outcome |-> "raised", error |-> st.raised, valid_df |-> df,
          rejects |-> st.rejects, skipped |-> st.skipped,
          df |-> [df EXCEPT !.data = st.data]]
    ELSE IF co.raised # None
    THEN [outcome |-> "raised", error |-> co.raised, valid_df |-> df,
          rejects |-> st.rejects, skipped |-> st.skipped,
          df |-> [df EXCEPT !.data = st.data]]
    ELSE [outcome |-> "returned", error |-> None,
          valid_df |-> [columns |-> df.columns, index |-> ListOfSet(st.valid),
                        data |-> [idx \in st.valid |-> co.data[idx]]],
          rejects |-> st.rejects, skipped |-> st.skipped,
          df |-> [df EXCEPT !.data = st.data]]

\* The part of apply_schema after the cast loop (validate.py:139-154).
SchemaOutcome(df, schema, st) ==
    SchemaResult(df, st, CoerceColumns(st.data, st.valid, df.columns, schema, 1))

\* apply_schema(df, schema) (validate.py:89-154).  Besides what the function
\* returns or raises, the result holds df as the casts left it: the caller's
\* dataset is changed in place (validate.py:129).
ApplySchema(df, schema) ==
    SchemaOutcome(df, schema,
                  CastSchema([data |-> df.data, valid |-> Range(df.index), rejects |-> <<>>,
                              raised |-> None, skipped |-> {}], df, schema, 1))

(***************************************************************************)
(* SpecSchema: apply_schema called on any dataset with unique row          *)
(* identities and any schema.                                              *)
(***************************************************************************)
cSpeed == <<"s", "p", "e", "e", "d">>

DTypes == {"int", "float", "str", "bool", "datetime", "timedelta"}
RpmCells == {Str("10.9"), Str("invalid"), Str("inf"), Null}
GearCells == {Str("7"), Str("x")}

Row2(rpm, gear) == [c \in {cRpm, cN_Gear} |-> IF c = cRpm THEN rpm ELSE gear]
RawRows == {Row2(r, g) : r \in RpmCells, g \in GearCells}

\* Datasets of n rows over the given rows, with every order of the labels 0..n-1.
DatasetsOf(rows, n) ==
    {[columns |-> <<cRpm, cN_Gear>>, index |-> ix, data |-> d] :
        ix \in InjSeqs(0..(n - 1), n), d \in [0..(n - 1) -> rows]}

SchemaItems ==
    {[col |-> cRpm, dtype |-> t] : t \in DTypes}
    \cup {[col |-> cN_Gear, dtype |-> t] : t \in {"int", "str"}}
    \cup {[col |-> cSpeed, dtype |-> "int"]}

\* Schemas of at most two items: a dict has no key twice.
Schemas ==
    {<<>>} \cup {<<a>> : a \in SchemaItems}
    \cup {sc \in {<<a, b>> : a, b \in SchemaItems} : sc[1].col # sc[2].col}

InitSchema ==
    /\ pc = "call"
    /\ \E n \in 0..MaxSchemaRows :
         args \in [df : DatasetsOf(RawRows, n),
                   schema : Schemas]
    /\ ret = None
    /\ store = EmptyStore
    /\ run = None
    /\ stats = None
    /\ local = None

CallApplySchema ==
    /\ pc = "call"
    /\ ret' = ApplySchema(args.df, args.schema)
    /\ pc' = "done"
    /\ UNCHANGED <<args, store, run, stats, local>>

NextSchema == CallApplySchema

SpecSchema == InitSchema /\ [][NextSchema]_vars

RejectedIds(rejects) == {rejects[i].index : i \in DOMAIN rejects}

\* C2: when apply_schema returns, accepted and rejected rows add up to the
\* input rows and no row identity is in both.
C2_SchemaPartition ==
    (pc = "done" /\ ret.outcome = "returned")
        => /\ Len(ret.valid_df.index) + Len(ret.rejects) = Len(args.df.index)
           /\ Range(ret.valid_df.index) \cap RejectedIds(ret.rejects) = {}

\* A returned call that accepted a row and rejected a row whose cells fail in
\* both schema columns.
C2_Witness ==
    /\ pc = "done"
    /\ ret.outcome = "returned"
    /\ Len(ret.valid_df.index) >= 1
    /\ Len(args.schema) = 2
    /\ \E i \in DOMAIN ret.rejects :
         \A j \in DOMAIN args.schema :
            /\ args.schema[j].col \in Range(args.df.columns)
            /\ CastToType(args.df.data[ret.rejects[i].index][args.schema[j].col],
                          args.schema[j].dtype).outcome = "ValueError"

\* The schema items whose column the dataset has (validate.py:115-117).
PresentItems == {j \in DOMAIN args.schema : args.schema[j].col \in Range(args.df.columns)}

\* cast_to_type on the cell the dataset held at the call, for row idx and
\* schema item j.
CastOfInput(idx, j) ==
    CastToType(args.df.data[idx][args.schema[j].col], args.schema[j].dtype)

\* The schema items in which the row's value fails casting with ValueError.
FailingItems(idx) == {j \in PresentItems : CastOfInput(idx, j).outcome = "ValueError"}

\* No value of a schema column makes cast_to_type raise anything but ValueError.
NoUncaughtCast ==
    \A idx \in Range(args.df.index) : \A j \in PresentItems :
        CastOfInput(idx, j).outcome \in {"ok", "ValueError"}

\* No schema column holds a null.
NoNullInSchemaColumn ==
    \A idx \in Range(args.df.index) : \A j \in PresentItems :
        ~IsNa(args.df.data[idx][args.schema[j].col])

\* C16: when apply_schema returns, the accepted dataset lists the surviving
\* rows in the order they have in the input dataset.
C16_AcceptedOrderPreserved ==
    (pc = "done" /\ ret.outcome = "returned") =>
        ret.valid_df.index
            = SelectSeq(args.df.index, LAMBDA idx : idx \in Range(ret.valid_df.index))

\* C17: where every cast either succeeds or fails with ValueError, a null in
\* a schema column does not make apply_schema raise, does not get its row
\* rejected for that column, and is still a null in the accepted dataset,
\* for every target type.
C17_NullPassesThrough ==
    (pc = "done" /\ NoUncaughtCast) =>
        \A idx \in Range(args.df.index) : \A j \in PresentItems :
            IsNa(args.df.data[idx][args.schema[j].col]) =>
                /\ ret.outcome = "returned"
                /\ \A i \in DOMAIN ret.rejects :
                      ~(ret.rejects[i].index = idx
                        /\ ret.rejects[i].reason.col = args.schema[j].col)
                /\ idx \in Range(ret.valid_df.index)
                      => IsNa(ret.valid_df.data[idx][args.schema[j].col])

\* C18: where no schema column holds a null, apply_schema returns normally
\* and every row with a value that cannot be cast to its column's type is
\* among the rejects.
C18_CastFailureBecomesReject ==
    (pc = "done" /\ NoNullInSchemaColumn) =>
        /\ ret.outcome = "returned"
        /\ \A idx \in Range(args.df.index) :
              (\E j \in PresentItems : CastOfInput(idx, j).outcome # "ok")
                  => idx \in RejectedIds(ret.rejects)

\* C19: when apply_schema returns, a row whose values fail casting in one or
\* more schema columns has exactly one reject, its reason names the first
\* failing column in schema order, and the row's cells in every later schema
\* column are as they were at the call (never cast).
C19_FirstFailingColumnWins ==
    (pc = "done" /\ ret.outcome = "returned") =>
        \A idx \in Range(args.df.index) :
            FailingItems(idx) # {} =>
                LET first == CHOOSE j \in FailingItems(idx) :
                                \A k \in FailingItems(idx) : j <= k
                IN /\ Cardinality({i \in DOMAIN ret.rejects : ret.rejects[i].index = idx}) = 1
                   /\ \A i \in DOMAIN ret.rejects :
                         ret.rejects[i].index = idx
                             => ret.rejects[i].reason.col = args.schema[first].col
                   /\ \A k \in PresentItems :
                         k > first => ret.df.data[idx][args.schema[k].col]
                                        = args.df.data[idx][args.schema[k].col]

\* A returned call with a row that fails in both schema columns and a row
\* that fails in the first and has a castable value in the second.
C19_Witness ==
    /\ pc = "done"
    /\ ret.outcome = "returned"
    /\ Len(args.schema) = 2
    /\ \E idx \in Range(args.df.index) : FailingItems(idx) = {1, 2}
    /\ \E idx \in Range(args.df.index) :
          /\ FailingItems(idx) = {1}
          /\ 2 \in PresentItems
          /\ CastOfInput(idx, 2).val # args.df.data[idx][args.schema[2].col]

\* C20: the snapshot of a reject holds, for the failing column, the value
\* the dataset held at the call; for every schema column processed before
\* it, the cast value; for every other column, the value held at the call.
C20_SnapshotAtFailure ==
    pc = "done" =>
        \A i \in DOMAIN ret.rejects :
            LET r == ret.rejects[i]
                orig == args.df.data[r.index]
                j == CHOOSE k \in PresentItems : args.schema[k].col = r.reason.col
            IN \A c \in Range(args.df.columns) :
                  IF \E k \in PresentItems : k < j /\ args.schema[k].col = c
                  THEN LET k == CHOOSE k \in PresentItems : k < j /\ args.schema[k].col = c
                       IN /\ CastOfInput(r.index, k).outcome = "ok"
                          /\ r.data[c] = CastOfInput(r.index, k).val
                  ELSE r.data[c] = orig[c]

\* A reject in the second schema column whose snapshot holds, in the first
\* schema column, a cast value that differs from the value at the call.
C20_Witness ==
    /\ pc = "done"
    /\ \E i \in DOMAIN ret.rejects :
          LET r == ret.rejects[i] IN
          /\ Len(args.schema) = 2
          /\ r.reason.col = args.schema[2].col
          /\ 1 \in PresentItems
          /\ r.data[args.schema[1].col] # args.df.data[r.index][args.schema[1].col]
          /\ r.data[args.schema[2].col] = args.df.data[r.index][args.schema[2].col]

(***************************************************************************)
(* RuleEngine: apply_rules (rules.py:7-76).                                *)
(*                                                                         *)
(* A rule expression is its text and, when it parses, the comparison it    *)
(* denotes: column, operator, integer constant.                            *)
(***************************************************************************)
Expr(text, col, op, k) == [text |-> text, col |-> col, op |-> op, k |-> k]

\* One comparison of a cell with an int constant, as pandas evaluates it:
\* a null compares False.
Compare(c, op, k) ==
    IF IsNa(c) THEN FALSE
    ELSE LET x == IF c.k = "float" THEN c.v ELSE c.v * 10
             y == k * 10
         IN CASE op = ">=" -> x >= y
              [] op = "<=" -> x <= y
              [] OTHER -> FALSE

\* df.eval(rule_expr) (rules.py:47): the boolean per row identity, or the
\* exception (syntax error, unknown column, str compared with int).
EvalRule(df, expr) ==
    IF expr.op \notin {">=", "<="} THEN [raised |-> "SyntaxError", result |-> <<>>]
    ELSE IF expr.col \notin Range(df.columns) THEN [raised |-> "UndefinedVariableError", result |-> <<>>]
    ELSE IF \E idx \in Range(df.index) : df.data[idx][expr.col].k \in {"str", "datetime", "timedelta"}
    THEN [raised |-> "TypeError", result |-> <<>>]
    ELSE [raised |-> None,
          result |-> [idx \in Range(df.index) |-> Compare(df.data[idx][expr.col], expr.op, expr.k)]]

\* rule_config.get('message', f'Failed rule: {rule_expr}') (rules.py:40)
MessageOf(rule_config) ==
    IF rule_config.message = None THEN "Failed rule: " \o rule_config.rule.text
    ELSE rule_config.message

\* A failing row is recorded whatever its mask entry is.
MaskIgnored(valid_mask, idx) == TRUE

\* "if valid_mask[idx]" (rules.py:57)
StillValid(valid_mask, idx) == valid_mask[idx]

\* The loop over failed_indices (rules.py:56-63), from position i of the index.
RECURSIVE MarkFailed(_, _, _, _, _)
MarkFailed(st, df, failed, message, i) ==
    IF i > Len(df.index) THEN st
    ELSE LET idx == df.index[i] IN
         IF failed[idx] /\ StillValid(st.valid_mask, idx)
         THEN MarkFailed([valid_mask |-> [st.valid_mask EXCEPT ![idx] = FALSE],
                          rejects |-> Append(st.rejects, Reject(idx, df.data[idx], message, <<>>))],
                         df, failed, message, i + 1)
         ELSE MarkFailed(st, df, failed, message, i + 1)

\* The loop over the rules ends at the first rule that cannot be evaluated.
BreakLoop(j, rules) == Len(rules) + 1

\* "continue" in the except clause (rules.py:66-69): the rule to go on with
\* after rule j raised.
ContinueWith(j, rules) == j + 1

\* A rule that cannot be evaluated starts the mask and the rejects over.
OnRuleErrorStartsOver(st) ==
    [valid_mask |-> [idx \in DOMAIN st.valid_mask |-> TRUE], rejects |-> <<>>]

\* The mask and the rejects after a rule raised: the exception leaves the try
\* block before either is touched (rules.py:47-53, 66-69).
OnRuleError(st) == st

\* The loop over rules (rules.py:38-69), from rule j on.
RECURSIVE RunRules(_, _, _, _)
RunRules(st, df, rules, j) ==
    IF j > Len(rules) THEN st
    ELSE LET e == EvalRule(df, rules[j].rule) IN
         IF e.raised # None THEN RunRules(OnRuleError(st), df, rules, ContinueWith(j, rules))
         ELSE LET failed == [idx \in Range(df.index) |-> ~e.result[idx]]
              IN RunRules(MarkFailed(st, df, failed, MessageOf(rules[j]), 1), df, rules, j + 1)

\* Every row is kept, whatever its mask entry is.
FilterKeepsAll(index, valid_mask) == index

\* df[valid_mask]: the rows whose mask is true, in the dataset's order
RECURSIVE FilterIndex(_, _)
FilterIndex(index, valid_mask) ==
    IF index = <<>> THEN <<>>
    ELSE (IF valid_mask[Head(index)] THEN <<Head(index)>> ELSE <<>>)
         \o FilterIndex(Tail(index), valid_mask)

\* apply_rules(df, rules) (rules.py:7-76)
ApplyRules(df, rules) ==
    IF rules = <<>> \/ df.index = <<>> \/ df.columns = <<>>
    THEN [valid_df |-> df, rejects |-> <<>>]
    ELSE LET st == RunRules([valid_mask |-> [idx \in Range(df.index) |-> TRUE],
                             rejects |-> <<>>], df, rules, 1)
             keep == FilterIndex(df.index, st.valid_mask)
         IN [valid_df |-> [columns |-> df.columns, index |-> keep,
                           data |-> [idx \in Range(keep) |-> df.data[idx]]],
             rejects |-> st.rejects]

(***************************************************************************)
(* SpecRules: apply_rules called on any typed dataset and any rule list.   *)
(***************************************************************************)
RuleConfigs ==
    { [rule |-> Expr("rpm >= 0", cRpm, ">=", 0), message |-> "RPM must be positive"],
      [rule |-> Expr("rpm <= 20", cRpm, "<=", 20), message |-> "RPM too high"],
      [rule |-> Expr("rpm >= 25", cRpm, ">=", 25), message |-> None],
      [rule |-> Expr("rpm >=", <<>>, "syntax", 0), message |-> "malformed"],
      [rule |-> Expr("speed <= 400", cSpeed, "<=", 400), message |-> "Speed too high"] }

TypedRows == {Row2(r, IntV(7)) : r \in {IntV(10), IntV(25), IntV(-1), Null}}

\* Increasing label sequences: the identities that survive a schema pass.
IncreasingSeqs(S, n) == {ix \in [1..n -> S] : \A i, j \in 1..n : i < j => ix[i] < ix[j]}

TypedDatasets(n) ==
    {[columns |-> <<cRpm, cN_Gear>>, index |-> ix, data |-> d] :
        ix \in IncreasingSeqs(0..MaxRuleRows, n),
        d \in UNION {[L -> TypedRows] : L \in {Range(ix) : ix \in IncreasingSeqs(0..MaxRuleRows, n)}}}

InitRules ==
    /\ pc = "call"
    /\ \E n \in 0..MaxRuleRows :
         /\ args \in [df : TypedDatasets(n), rules : SeqsUpTo(RuleConfigs, MaxRules)]
         /\ DOMAIN args.df.data = Range(args.df.index)
    /\ ret = None
    /\ store = EmptyStore
    /\ run = None
    /\ stats = None
    /\ local = None

CallApplyRules ==
    /\ pc = "call"
    /\ ret' = ApplyRules(args.df, args.rules)
    /\ pc' = "done"
    /\ UNCHANGED <<args, store, run, stats, local>>

NextRules == CallApplyRules

SpecRules == InitRules /\ [][NextRules]_vars

\* The rules of the list, by position, that evaluate on df and that row idx fails.
FailedRules(df, rules, idx) ==
    {j \in DOMAIN rules :
        LET e == EvalRule(df, rules[j].rule) IN e.raised = None /\ ~e.result[idx]}

FirstOf(S) == CHOOSE j \in S : \A k \in S : j <= k

\* C3: a row failing several rules is rejected exactly once, with the message
\* of the first rule in list order that it fails.
C3_FirstFailingRuleWins ==
    pc = "done" =>
        \A idx \in Range(args.df.index) :
            LET F == FailedRules(args.df, args.rules, idx)
                R == {i \in DOMAIN ret.rejects : ret.rejects[i].index = idx}
            IN Cardinality(F) >= 2 =>
                 /\ Cardinality(R) = 1
                 /\ \A i \in R : ret.rejects[i].reason.text = MessageOf(args.rules[FirstOf(F)])

\* A row fails two rules with different messages, the later of which would
\* have given another reason.
C3_Witness ==
    /\ pc = "done"
    /\ \E idx \in Range(args.df.index) :
         LET F == FailedRules(args.df, args.rules, idx) IN
         /\ Cardinality(F) >= 2
         /\ \E j \in F : MessageOf(args.rules[j]) # MessageOf(args.rules[FirstOf(F)])
         /\ \E i \in DOMAIN ret.rejects : ret.rejects[i].index = idx

\* The rules of the list, by position, that df.eval can evaluate on df.
Evaluable(df, rules) == {j \in DOMAIN rules : EvalRule(df, rules[j].rule).raised = None}

\* The rows that fail some evaluable rule of the list.
FailingRows(df, rules) == {idx \in Range(df.index) : FailedRules(df, rules, idx) # {}}

\* C21: when the rule list holds a rule that cannot be evaluated, the rows
\* rejected are exactly the rows failing an evaluable rule, before or after
\* it in the list, each once and with the message of the first evaluable rule
\* it fails; the accepted dataset holds every other row.
C21_MalformedRuleSkipped ==
    (pc = "done" /\ Evaluable(args.df, args.rules) # DOMAIN args.rules) =>
        /\ RejectedIds(ret.rejects) = FailingRows(args.df, args.rules)
        /\ Len(ret.rejects) = Cardinality(FailingRows(args.df, args.rules))
        /\ \A i \in DOMAIN ret.rejects :
              ret.rejects[i].reason.text
                  = MessageOf(args.rules[FirstOf(FailedRules(args.df, args.rules,
                                                             ret.rejects[i].index))])
        /\ Range(ret.valid_df.index)
              = Range(args.df.index) \ FailingRows(args.df, args.rules)

\* A rule that cannot be evaluated stands first in the list and a later rule
\* rejects a row while another row is accepted.
C21_Witness ==
    /\ pc = "done"
    /\ Len(args.rules) = 2
    /\ Evaluable(args.df, args.rules) = {2}
    /\ ret.rejects # <<>>
    /\ ret.valid_df.index # <<>>

\* C22: apply_rules accepts exactly the rows for which every evaluable rule
\* is true, in the order of the input dataset and with the cells of the
\* input; with no rule or no row it returns the dataset as it is and no
\* reject.
C22_AcceptsPassingRows ==
    pc = "done" =>
        /\ ret.valid_df.index
              = SelectSeq(args.df.index,
                          LAMBDA idx : FailedRules(args.df, args.rules, idx) = {})
        /\ ret.valid_df.columns = args.df.columns
        /\ \A idx \in Range(ret.valid_df.index) : ret.valid_df.data[idx] = args.df.data[idx]
        /\ (args.rules = <<>> \/ args.df.index = <<>>)
              => (ret.valid_df = args.df /\ ret.rejects = <<>>)

\* Two rules evaluate, every row but the last is rejected and the last row
\* is accepted.
C22_Witness ==
    /\ pc = "done"
    /\ Cardinality(Evaluable(args.df, args.rules)) = 2
    /\ Len(args.df.index) >= 2
    /\ Len(ret.valid_df.index) = 1
    /\ ret.valid_df.index[1] = args.df.index[Len(args.df.index)]

\* The orders a rule list can be given in: its permutations.
RuleOrders(seq) ==
    {[i \in DOMAIN seq |-> seq[p[i]]] : p \in InjSeqs(DOMAIN seq, Len(seq))}

\* C23: for every permutation of the rule list, apply_rules accepts the same
\* set of rows and rejects the same set of rows.
C23_RuleOrderIndependent ==
    pc = "done" =>
        \A perm \in RuleOrders(args.rules) :
            LET r == ApplyRules(args.df, perm) IN
            /\ Range(r.valid_df.index) = Range(ret.valid_df.index)
            /\ RejectedIds(r.rejects) = RejectedIds(ret.rejects)

\* Some order of the rule list gives another reject list (another reason
\* for a row failing two rules) while the set of rejected rows is the same.
C23_Witness ==
    /\ pc = "done"
    /\ \E perm \in RuleOrders(args.rules) :
          /\ ApplyRules(args.df, perm).rejects # ret.rejects
          /\ RejectedIds(ApplyRules(args.df, perm).rejects) = RejectedIds(ret.rejects)
    /\ ret.rejects # <<>>

\* C24: a row with a null in the column an evaluable rule refers to is not
\* rejected with that rule's message, and it is in the accepted dataset, its
\* cell still null, unless a rule on another of its cells rejects it.
C24_NullNotRejected ==
    pc = "done" =>
        \A idx \in Range(args.df.index) : \A j \in Evaluable(args.df, args.rules) :
            IsNa(args.df.data[idx][args.rules[j].rule.col]) =>
                \A i \in DOMAIN ret.rejects :
                    ~(ret.rejects[i].index = idx
                      /\ ret.rejects[i].reason.text = MessageOf(args.rules[j]))

(***************************************************************************)
(* clean.py: normalize_columns and trim_strings.                           *)
(***************************************************************************)
UpperChars == {"R", "P", "M", "G", "S"}
LowerChars == {"r", "p", "m", "g", "s", "n", "e", "a", "d", "i"}

\* ch.lower()
LowerChar(ch) ==
    CASE ch = "R" -> "r"
      [] ch = "P" -> "p"
      [] ch = "M" -> "m"
      [] ch = "G" -> "g"
      [] ch = "S" -> "s"
      [] OTHER -> ch

\* str(col).strip() (clean.py:36)
RECURSIVE LStrip(_)
LStrip(name) == IF name # <<>> /\ Head(name) = " " THEN LStrip(Tail(name)) ELSE name

RECURSIVE RStrip(_)
RStrip(name) ==
    IF name # <<>> /\ name[Len(name)] = " " THEN RStrip(SubSeq(name, 1, Len(name) - 1)) ELSE name

StripName(name) == RStrip(LStrip(name))

\* normalized.isupper() (clean.py:38): some cased character, none of them lower
IsUpperName(name) ==
    /\ \E i \in DOMAIN name : name[i] \in UpperChars
    /\ \A i \in DOMAIN name : name[i] \notin LowerChars

LowerName(name) == [i \in DOMAIN name |-> LowerChar(name[i])]

\* re.sub(r'(?<!^)(?=[A-Z])', '_', normalized) (clean.py:41), from position i
RECURSIVE CamelToSnake(_, _)
CamelToSnake(name, i) ==
    IF i > Len(name) THEN <<>>
    ELSE (IF i > 1 /\ name[i] \in UpperChars THEN <<"_", name[i]>> ELSE <<name[i]>>)
         \o CamelToSnake(name, i + 1)

\* The new name of one column (clean.py:34-43)
NormalizeName(col) ==
    LET normalized == StripName(col) IN
    IF IsUpperName(normalized) THEN LowerName(normalized)
    ELSE LowerName(CamelToSnake(normalized, 1))

\* A row under renamed columns.
RenameRow(row, old, new) ==
    [c \in Range(new) |-> row[old[CHOOSE i \in DOMAIN new : new[i] = c]]]

\* normalize_columns(df) (clean.py:7-50)
NormalizeColumns(df) ==
    LET normalized_cols == [i \in DOMAIN df.columns |-> NormalizeName(df.columns[i])]
    IN [columns |-> normalized_cols, index |-> df.index,
        data |-> [idx \in DOMAIN df.data |-> RenameRow(df.data[idx], df.columns, normalized_cols)]]

\* x.strip() on the texts of the model (clean.py:76)
StripText(t) ==
    CASE t = " 7" -> "7"
      [] OTHER -> t

\* trim_strings(df) (clean.py:52-82)
TrimStrings(df) ==
    [df EXCEPT !.data =
        [idx \in DOMAIN df.data |->
            [c \in DOMAIN df.data[idx] |->
                IF df.data[idx][c].k = "str" THEN Str(StripText(df.data[idx][c].s))
                ELSE df.data[idx][c]]]]

(***************************************************************************)
(* csv_reader.py: read_csv.  A file is missing, or holds a header and the  *)
(* cells pandas parses from its lines.  Row identities are the RangeIndex   *)
(* 0..n-1.  The rename of an 'Unnamed: 0' column is left out: no file of   *)
(* the model has one.                                                      *)
(***************************************************************************)
ReadCsv(file) ==
    IF ~file.exists THEN [outcome |-> "raised", error |-> "FileNotFoundError", df |-> None]
    ELSE [outcome |-> "returned", error |-> None,
          df |-> [columns |-> file.header,
                  index |-> [i \in 1..Len(file.rows) |-> i - 1],
                  data |-> [idx \in 0..(Len(file.rows) - 1) |-> file.rows[idx + 1]]]]

(***************************************************************************)
(* RejectSink: write_rejects (load.py:102-146).                            *)
(***************************************************************************)
\* value.isoformat() for datetime-like cells (load.py:129-133)
JsonCell(c) == IF c.k \in {"datetime", "timedelta"} THEN Str(c.s) ELSE c

\* A record that loses the reject's reason.
RejectRecordDropsReason(reject, source_name) ==
    [source_name |-> source_name,
     raw_payload |-> [c \in DOMAIN reject.data |-> JsonCell(reject.data[c])],
     reason |-> [text |-> "", col |-> <<>>]]

\* One row of the batch: (source_name, Json(data_copy), reject['reason'])
\* (load.py:126-139)
RejectRecord(reject, source_name) ==
    [source_name |-> source_name,
     raw_payload |-> [c \in DOMAIN reject.data |-> JsonCell(reject.data[c])],
     reason |-> reject.reason]

\* write_rejects(rejects, source_name, db_url): tbl is stg_rejects before the call.
WriteRejects(tbl, rejects, source_name, f) ==
    IF rejects = <<>>
    THEN [outcome |-> "returned", error |-> None, count |-> 0, table |-> tbl, log |-> <<>>]
    ELSE
    LET rows == [i \in DOMAIN rejects |-> RejectRecord(rejects[i], source_name)] IN
    IF f.connect
    THEN [outcome |-> "raised", error |-> "OperationalError", count |-> 0, table |-> tbl,
          log |-> <<Ev("connect_failed")>>]
    ELSE IF f.exec = 1
    THEN [outcome |-> "raised", error |-> "DatabaseError", count |-> 0,
          table |-> OnException(tbl, tbl),
          log |-> <<Ev("connect"), [ev |-> "exec_failed", rows |-> rows], Ev("rollback"), Ev("close")>>]
    ELSE IF f.commit
    THEN [outcome |-> "raised", error |-> "DatabaseError", count |-> 0,
          table |-> OnException(tbl, tbl \o rows),
          log |-> <<Ev("connect"), [ev |-> "exec", rows |-> rows], Ev("commit_failed"),
                    Ev("rollback"), Ev("close")>>]
    ELSE [outcome |-> "returned", error |-> None, count |-> Len(rejects),
          table |-> Commit(tbl, tbl \o rows),
          log |-> <<Ev("connect"), [ev |-> "exec", rows |-> rows], Ev("commit"), Ev("close")>>]

(***************************************************************************)
(* SpecSink: a caller loads a dataset with load_dataframe and, when that   *)
(* returned, hands a reject list to write_rejects (the order of            *)
(* main.py:100-111), against a store that may fail any operation of        *)
(* either call.                                                            *)
(***************************************************************************)
SinkRejects ==
    {Reject(0, Row2(Str("invalid"), Str("x")), "Type casting failed for column", cRpm),
     Reject(1, Row2(IntV(25), IntV(7)), "RPM too high", <<>>),
     Reject(2, Row2(DatetimeV("2025-01-01"), IntV(7)), "RPM must be positive", <<>>)}

SinkSources == {"car", "bike"}

\* Records stg_rejects holds before the call.
SinkRecords == {<<>>, <<RejectRecord(Reject(5, Row2(Null, IntV(7)), "RPM too high", <<>>), "car")>>}

InitSink ==
    /\ pc = "load"
    /\ args \in [rejects : SeqsUpTo(SinkRejects, MaxRejects),
                 source_name : SinkSources,
                 df : {<<>>, <<LoaderRow(1, 10), LoaderRow(2, 25)>>},
                 stg0 : SinkRecords]
    /\ ret = None
    /\ store = [EmptyStore EXCEPT !.stg_rejects = args.stg0]
    /\ run = None
    /\ stats = None
    /\ local = None

\* load_dataframe(df, table, primary_keys, db_url, batch_size); an exception
\* ends the caller before write_rejects.
SinkLoad ==
    /\ pc = "load"
    /\ \E f \in Faults :
         LET r == LoadDataframe(store.target, args.df, <<cId>>, MaxBatch, f)
         IN /\ ret' = [fn |-> "load_dataframe", outcome |-> r.outcome, error |-> r.error,
                       count |-> r.total]
            /\ store' = [store EXCEPT !.target = r.table, !.log = r.log]
            /\ local' = [target |-> r.table, load_log |-> r.log]
            /\ pc' = IF r.outcome = "raised" THEN "done" ELSE "write"
    /\ UNCHANGED <<args, run, stats>>

\* write_rejects(rejects, source_name, db_url) (load.py:102-146)
SinkWrite ==
    /\ pc = "write"
    /\ \E f \in Faults :
         LET w == WriteRejects(store.stg_rejects, args.rejects, args.source_name, f)
         IN /\ ret' = [fn |-> "write_rejects", outcome |-> w.outcome, error |-> w.error,
                       count |-> w.count]
            /\ store' = [store EXCEPT !.stg_rejects = w.table, !.log = @ \o w.log]
    /\ pc' = "done"
    /\ UNCHANGED <<args, run, stats, local>>

NextSink == SinkLoad \/ SinkWrite

SpecSink == InitSink /\ [][NextSink]_vars

\* The store events of the write_rejects call: those after the loader's.
SinkLog == SubSeq(store.log, Len(local.load_log) + 1, Len(store.log))

\* The records stg_rejects holds beyond those it held before the call.
SinkWritten == SubSeq(store.stg_rejects, Len(args.stg0) + 1, Len(store.stg_rejects))

\* The snapshot as it is serialised: datetime-like cells as their ISO text.
IsSnapshotOf(payload, data) ==
    /\ DOMAIN payload = DOMAIN data
    /\ \A c \in DOMAIN data :
          payload[c] = IF data[c].k \in {"datetime", "timedelta"}
                       THEN [k |-> "str", v |-> 0, s |-> data[c].s]
                       ELSE data[c]

\* C25: with an empty reject list write_rejects returns 0 without touching
\* the store.  Otherwise it opens a connection of its own, after the
\* loader's was closed; when it returns, it returns the number of rejects
\* and stg_rejects has gained one record per reject, in order, holding the
\* source name, the snapshot and the reason, all executed as one batch and
\* committed; when it raises, stg_rejects is as it was before the call.
\* The target table is what the loader committed in every case.
C25_RejectSink ==
    (pc = "done" /\ ret.fn = "write_rejects") =>
        /\ store.target = local.target
        /\ SubSeq(store.log, 1, Len(local.load_log)) = local.load_log
        /\ SubSeq(store.stg_rejects, 1, Len(args.stg0)) = args.stg0
        /\ args.rejects = <<>> =>
              /\ ret.outcome = "returned" /\ ret.count = 0
              /\ SinkLog = <<>>
              /\ SinkWritten = <<>>
        /\ args.rejects # <<>> =>
              /\ SinkLog[1].ev \in {"connect", "connect_failed"}
              /\ \A i \in DOMAIN SinkLog : i > 1 => SinkLog[i].ev \notin {"connect", "connect_failed"}
              /\ Cardinality({i \in DOMAIN SinkLog : SinkLog[i].ev \in {"exec", "exec_failed"}}) <= 1
              /\ ret.outcome = "returned" =>
                    /\ ret.count = Len(args.rejects)
                    /\ [i \in DOMAIN SinkLog |-> SinkLog[i].ev]
                          = <<"connect", "exec", "commit", "close">>
                    /\ SinkLog[2].rows = SinkWritten
                    /\ Len(SinkWritten) = Len(args.rejects)
                    /\ \A i \in DOMAIN args.rejects :
                          /\ SinkWritten[i].source_name = args.source_name
                          /\ SinkWritten[i].reason = args.rejects[i].reason
                          /\ IsSnapshotOf(SinkWritten[i].raw_payload, args.rejects[i].data)
              /\ ret.outcome = "raised" =>
                    /\ SinkWritten = <<>>
                    /\ \A i \in DOMAIN SinkLog : SinkLog[i].ev # "commit"
                    /\ SinkLog[1].ev = "connect" =>
                          /\ SinkLog[Len(SinkLog)].ev = "close"
                          /\ SinkLog[Len(SinkLog) - 1].ev = "rollback"

\* Two rejects, one with a datetime cell, are written for source 'bike' to
\* a table that held a record, after the loader committed two rows.
C25_Witness ==
    /\ pc = "done"
    /\ ret.fn = "write_rejects"
    /\ ret.outcome = "returned"
    /\ ret.count = 2
    /\ args.source_name = "bike"
    /\ args.stg0 # <<>>
    /\ Len(store.target) = 2
    /\ Len(store.stg_rejects) = 3
    /\ \E i \in DOMAIN args.rejects : args.rejects[i].data[cRpm].k = "datetime"

(***************************************************************************)
(* PipelineOrchestrator (main.py): run_telemetry_ingestion in four steps   *)
(* and the loop of run_all_sources around it.                              *)
(***************************************************************************)
DefaultBatchSize == 5000

\* Parameters of load_dataframe without a default (load.py:42-48)
LoadDataframeRequired == {"df", "table", "primary_keys", "db_url"}

\* Keyword arguments of the call in run_telemetry_ingestion (main.py:100-105)
MainLoadKwargs == {"df", "table", "db_url", "batch_size"}

\* Python binds a call only if every parameter without a default is given.
CallBinds(required, given) == required \subseteq given

\* The schema handed to apply_schema (main.py:83)
SchemaGiven(source_config) == source_config.schema

InitStats(source_name) ==
    [source |-> source_name, status |-> "failed", rows_read |-> 0, rows_valid |-> 0,
     rows_rejected |-> 0, rows_loaded |-> 0, error |-> None]

\* A failure recorded without the exception's message.
FailedLosesError(st, e) == [st EXCEPT !.status = "failed"]

\* except clause of run_telemetry_ingestion (main.py:116-121)
Failed(st, e) == [st EXCEPT !.error = e, !.status = "failed"]

Call(fn, outcome) == [fn |-> fn, outcome |-> outcome]

NoPipelineFaults == [load |-> NoFaults, sink |-> NoFaults]

Local0 ==
    [source_config |-> None, df |-> None, all_rejects |-> <<>>, read_ids |-> {},
     skipped |-> {}, trace |-> <<>>, faults |-> NoPipelineFaults, stg0 |-> <<>>,
     rule_ids |-> {}, exc |-> None]

\* The rules are applied to the dataset as the casts left it, rejected rows
\* included.
RulesInputInPlace(s) == s.df

\* The dataset handed to apply_rules: df, rebound to the accepted dataset
\* apply_schema returned (main.py:83, 89).  s is the result of ApplySchema.
RulesInput(s) == s.valid_df

\* The rows of a dataset in row order: what tuple(row) for row in df.values sees.
RowsOf(df) == [i \in DOMAIN df.index |-> df.data[df.index[i]]]

\* The rejects are written although the load raised.
LoadErrorSwallowed(load) == FALSE

\* An exception of load_dataframe leaves the try block before write_rejects
\* (main.py:100-116).
LoadErrorPropagates(load) == load.outcome = "raised"

\* Steps 6 and 7 with the success mark (main.py:98-121): the stats, the store
\* and the calls made, under store behaviour f.
LoadAndRejects(st, sto, loc, f) ==
    LET load == IF CallBinds(LoadDataframeRequired, MainLoadKwargs)
                THEN LoadDataframe(sto.target, RowsOf(loc.df), <<>>, DefaultBatchSize, f.load)
                ELSE [outcome |-> "raised", error |-> "TypeError", inserted |-> 0, total |-> 0,
                      table |-> sto.target, log |-> <<>>]
        sto1 == [sto EXCEPT !.target = load.table, !.log = @ \o load.log]
        tr1 == Append(loc.trace, Call("load_dataframe", load.outcome))
    IN IF LoadErrorPropagates(load)
       THEN [outcome |-> "raised", stats |-> Failed(st, load.error), store |-> sto1, trace |-> tr1,
             error |-> load.error]
       ELSE LET st1 == [st EXCEPT !.rows_loaded = load.total] IN
            IF loc.all_rejects = <<>>
            THEN [outcome |-> "returned", stats |-> [st1 EXCEPT !.status = "success"],
                  store |-> sto1, trace |-> tr1, error |-> None]
            ELSE LET w == WriteRejects(sto.stg_rejects, loc.all_rejects, st.source, f.sink)
                     sto2 == [sto1 EXCEPT !.stg_rejects = w.table, !.log = @ \o w.log]
                     tr2 == Append(tr1, Call("write_rejects", w.outcome))
                 IN IF w.outcome = "raised"
                    THEN [outcome |-> "raised", stats |-> Failed(st1, w.error),
                          store |-> sto2, trace |-> tr2, error |-> w.error]
                    ELSE [outcome |-> "returned", stats |-> [st1 EXCEPT !.status = "success"],
                          store |-> sto2, trace |-> tr2, error |-> None]

\* The except clause of run_all_sources appends to `result`, not `results`
\* (main.py:171-177): the exception it raises.
HandlerError(result) ==
    IF result = "unbound" THEN "UnboundLocalError" ELSE "AttributeError"

(***************************************************************************)
(* Spec: run_all_sources over a configuration of up to MaxSources sources. *)
(* The configuration of a source is chosen when the loop reaches it.       *)
(***************************************************************************)
CsvRows(header) ==
    LET row(rpm, gear) == [c \in Range(header) |-> IF c = header[1] THEN rpm ELSE gear]
    IN {row(Str("10.9"), Str(" 7")), row(Str("25"), Str("7")),
        row(Str("invalid"), Str("x")), row(Null, Str("7")), row(Str("25"), Str("x"))}

Headers == {<<cRPM, cNGear>>, <<cRpm, cN_Gear>>}

Files ==
    {[exists |-> FALSE, header |-> <<>>, rows |-> <<>>]}
    \cup UNION {[exists : {TRUE}, header : {h}, rows : SeqsUpTo(CsvRows(h), MaxCsvRows)] : h \in Headers}

PipelineSchemas ==
    {<<[col |-> cRPM, dtype |-> "int"], [col |-> cNGear, dtype |-> "int"]>>,
     <<[col |-> cRpm, dtype |-> "int"], [col |-> cN_Gear, dtype |-> "int"]>>}

PipelineRules ==
    <<[rule |-> Expr("rpm >= 0", cRpm, ">=", 0), message |-> "RPM must be positive"],
      [rule |-> Expr("rpm <= 20", cRpm, "<=", 20), message |-> "RPM too high"]>>

SourceConfigs ==
    [name : {"car"}, file : Files, schema : PipelineSchemas,
     has_rules : BOOLEAN, rules : {PipelineRules}]

StoreFaults ==
    {NoFaults, [NoFaults EXCEPT !.connect = TRUE], [NoFaults EXCEPT !.exec = 1],
     [NoFaults EXCEPT !.commit = TRUE]}

PipelineFaults == [load : StoreFaults, sink : StoreFaults]

Init ==
    /\ pc = "loop"
    /\ args = None
    /\ ret = None
    /\ store = EmptyStore
    /\ run \in [n : 0..MaxSources, i : {0}, results : {<<>>}, result : {"unbound"}]
    /\ stats = InitStats(None)
    /\ local = Local0

\* for source_config in sources: ... run_telemetry_ingestion(source_config, db_url)
\* up to the stats initialisation (main.py:167-169, 45-63)
StartSource ==
    /\ pc = "loop"
    /\ run.i < run.n
    /\ \E cfg \in SourceConfigs :
         /\ local' = [Local0 EXCEPT !.source_config = cfg, !.stg0 = store.stg_rejects]
         /\ stats' = InitStats(cfg.name)
    /\ pc' = "step1"
    /\ UNCHANGED <<args, ret, store, run>>

\* Step 1 (main.py:66-70)
Step1Read ==
    /\ pc = "step1"
    /\ LET r == ReadCsv(local.source_config.file) IN
       IF r.outcome = "raised"
       THEN /\ stats' = Failed(stats, r.error)
            /\ local' = [local EXCEPT !.trace = Append(@, Call("read_csv", "raised")),
                                      !.exc = r.error]
            /\ pc' = "run_raised"
       ELSE /\ stats' = [stats EXCEPT !.rows_read = Len(r.df.index)]
            /\ local' = [local EXCEPT !.df = r.df, !.read_ids = Range(r.df.index),
                                      !.trace = Append(@, Call("read_csv", "returned"))]
            /\ pc' = "step2"
    /\ UNCHANGED <<args, ret, store, run>>

\* Steps 2 to 5 (main.py:72-96)
Step2to5Validate ==
    /\ pc = "step2"
    /\ LET cfg == local.source_config
           cleaned == TrimStrings(NormalizeColumns(local.df))
           s == ApplySchema(cleaned, SchemaGiven(cfg))
       IN IF s.outcome = "raised"
          THEN /\ stats' = Failed(stats, s.error)
               /\ local' = [local EXCEPT !.trace = Append(@, Call("apply_schema", "raised")),
                                         !.exc = s.error]
               /\ pc' = "run_raised"
          ELSE LET r == IF cfg.has_rules THEN ApplyRules(RulesInput(s), cfg.rules)
                        ELSE [valid_df |-> s.valid_df, rejects |-> <<>>]
                   all_rejects == s.rejects \o r.rejects
               IN /\ stats' = [stats EXCEPT !.rows_valid = Len(r.valid_df.index),
                                            !.rows_rejected = Len(all_rejects)]
                  /\ local' = [local EXCEPT !.df = r.valid_df, !.all_rejects = all_rejects,
                                            !.skipped = s.skipped,
                                            !.rule_ids = IF cfg.has_rules
                                                         THEN Range(RulesInput(s).index)
                                                         ELSE {},
                                            !.trace = Append(@, Call("apply_schema", "returned"))]
                  /\ pc' = "step6"
    /\ UNCHANGED <<args, ret, store, run>>

\* Steps 6 and 7 (main.py:98-121) against a store that behaves as f
Step6to7LoadAndRejects ==
    /\ pc = "step6"
    /\ \E f \in PipelineFaults :
         LET r == LoadAndRejects(stats, store, local, f) IN
         /\ stats' = r.stats
         /\ store' = r.store
         /\ local' = [local EXCEPT !.trace = r.trace, !.faults = f, !.exc = r.error]
         /\ pc' = IF r.outcome = "raised" THEN "run_raised" ELSE "run_returned"
    /\ UNCHANGED <<args, ret, run>>

\* The try/except around the call in run_all_sources (main.py:168-177)
Collect ==
    /\ pc \in {"run_returned", "run_raised"}
    /\ IF pc = "run_returned"
       THEN /\ run' = [run EXCEPT !.results = Append(@, stats), !.result = "dict", !.i = @ + 1]
            /\ pc' = "loop"
            /\ ret' = ret
       ELSE /\ run' = run
            /\ pc' = "raised"
            /\ ret' = [outcome |-> "raised", error |-> HandlerError(run.result)]
    /\ UNCHANGED <<args, store, stats, local>>

\* After the loop: the summary and `return results` (main.py:179-188)
Summary ==
    /\ pc = "loop"
    /\ run.i = run.n
    /\ pc' = "returned"
    /\ ret' = [outcome |-> "returned", error |-> None]
    /\ UNCHANGED <<args, store, run, stats, local>>

Next ==
    \/ StartSource
    \/ Step1Read
    \/ Step2to5Validate
    \/ Step6to7LoadAndRejects
    \/ Collect
    \/ Summary

Spec == Init /\ [][Next]_vars

(***************************************************************************)
(* Claims about a source run and the runner (checked under Spec).          *)
(***************************************************************************)
Called(fn, outcome) == \E i \in DOMAIN local.trace : local.trace[i] = Call(fn, outcome)

\* Schema validation and rule application have completed in the current run.
ValidationDone == Called("apply_schema", "returned")

RunEnded == pc \in {"run_returned", "run_raised"}

\* C1: after validation every row read is either accepted or rejected, never
\* both and never twice, and rows_valid + rows_rejected = rows_read.
C1_RunPartition ==
    ValidationDone =>
        LET accepted == Range(local.df.index)
            rejected == RejectedIds(local.all_rejects)
        IN /\ accepted \cap rejected = {}
           /\ accepted \cup rejected = local.read_ids
           /\ Cardinality(rejected) = Len(local.all_rejects)
           /\ stats.rows_valid = Len(local.df.index)
           /\ stats.rows_rejected = Len(local.all_rejects)
           /\ stats.rows_valid + stats.rows_rejected = stats.rows_read

\* A run whose reject list holds a schema reject and a rule reject.
C1_Witness ==
    /\ ValidationDone
    /\ \E i, j \in DOMAIN local.all_rejects :
          /\ local.all_rejects[i].reason.col # <<>>
          /\ local.all_rejects[j].reason.col = <<>>

\* C5: the runner survives a failing source: it ends by returning, with one
\* result per configured source.
C5_OneResultPerSource ==
    pc \in {"returned", "raised"} => (pc = "returned" /\ Len(run.results) = run.n)

\* C6: a run whose file was read and validated, against a store that accepts
\* every operation, loads the accepted rows, writes the rejects if there are
\* any, and ends with status success and rows_loaded = rows_valid.
C6_RunSucceeds ==
    (RunEnded /\ ValidationDone /\ local.faults = NoPipelineFaults)
        => /\ Called("load_dataframe", "returned")
           /\ (local.all_rejects # <<>> => Called("write_rejects", "returned"))
           /\ stats.status = "success"
           /\ stats.rows_loaded = stats.rows_valid

\* C7: write_rejects is called only after load_dataframe returned; when
\* load_dataframe raised it is never called and stg_rejects keeps its rows.
C7_RejectsOnlyAfterLoad ==
    /\ \A i \in DOMAIN local.trace :
          local.trace[i].fn = "write_rejects"
              => \E j \in 1..(i - 1) : local.trace[j] = Call("load_dataframe", "returned")
    /\ Called("load_dataframe", "raised")
          => /\ \A i \in DOMAIN local.trace : local.trace[i].fn # "write_rejects"
             /\ store.stg_rejects = local.stg0

\* A run with rejects to write whose load raised.
C7_Witness ==
    /\ pc = "run_raised"
    /\ Called("load_dataframe", "raised")
    /\ local.all_rejects # <<>>
    /\ stats.status = "failed"

\* C8: when the store takes the load and fails the reject write, the accepted
\* rows are committed in the target table, no reject record is kept, and the
\* run ends failed with the error recorded.
C8_LoadKeptWhenSinkFails ==
    (/\ pc = "run_raised"
     /\ ValidationDone
     /\ local.faults.load = NoFaults
     /\ local.faults.sink # NoFaults
     /\ local.all_rejects # <<>>
     /\ local.df.index # <<>>)
        => /\ Called("load_dataframe", "returned")
           /\ Called("write_rejects", "raised")
           /\ store.target = RowsOf(local.df)
           /\ store.stg_rejects = local.stg0
           /\ stats.status = "failed"
           /\ stats.error # None

\* C9: every schema entry whose key is a column of the file, as written
\* there, is cast by apply_schema and not skipped as absent.
C9_SchemaKeysNormalized ==
    ValidationDone =>
        \A j \in DOMAIN local.source_config.schema :
            local.source_config.schema[j].col \in Range(local.source_config.file.header)
                => local.source_config.schema[j].col \notin local.skipped

\* The dataset of the current run as apply_schema receives it (main.py:66-78).
CleanedInput == TrimStrings(NormalizeColumns(ReadCsv(local.source_config.file).df))

\* The row fails casting in a schema column the cleaned dataset has.
FailsSchema(idx) ==
    \E j \in DOMAIN SchemaGiven(local.source_config) :
        LET item == SchemaGiven(local.source_config)[j] IN
        /\ item.col \in Range(CleanedInput.columns)
        /\ CastToType(CleanedInput.data[idx][item.col], item.dtype).outcome = "ValueError"

\* The rejects recorded for a row identity.
RejectsOf(idx) == {i \in DOMAIN local.all_rejects : local.all_rejects[i].index = idx}

\* C13: after validation the reject list holds at most one reject per row
\* identity; a row that fails the schema is not handed to apply_rules, and
\* its one reject is the schema reject (naming a column), not a rule's.
C13_OneRejectPerRow ==
    ValidationDone =>
        /\ \A idx \in local.read_ids : Cardinality(RejectsOf(idx)) <= 1
        /\ \A idx \in local.read_ids :
              FailsSchema(idx) =>
                  /\ idx \notin local.rule_ids
                  /\ Cardinality(RejectsOf(idx)) = 1
                  /\ \A i \in RejectsOf(idx) : local.all_rejects[i].reason.col # <<>>
        /\ \A i \in DOMAIN local.all_rejects :
              local.all_rejects[i].reason.col = <<>>
                  => local.all_rejects[i].index \in local.rule_ids

\* A run with rules in which a row rejected by the schema holds an rpm that
\* breaks a rule, next to a row that a rule rejected.
C13_Witness ==
    /\ ValidationDone
    /\ local.source_config.has_rules
    /\ \E i, j \in DOMAIN local.all_rejects :
          /\ local.all_rejects[i].reason.col # <<>>
          /\ local.all_rejects[i].data[cRpm] = IntV(25)
          /\ local.all_rejects[j].reason.col = <<>>

\* A call of the current run raised.
StageRaised == \E i \in DOMAIN local.trace : local.trace[i].outcome = "raised"

\* C14: when a stage of a run raises, the run ends by raising to its caller
\* with status 'failed' and error set to the exception's message; status is
\* 'success' only when no stage raised, load_dataframe returned and, with
\* rejects to write, write_rejects returned.
C14_FailureRecorded ==
    /\ StageRaised =>
          /\ pc \in {"run_raised", "raised"}
          /\ stats.status = "failed"
          /\ local.exc # None
          /\ stats.error = local.exc
    /\ pc = "run_raised" => StageRaised
    /\ stats.status = "success" =>
          /\ ~StageRaised
          /\ Called("load_dataframe", "returned")
          /\ local.all_rejects # <<>> => Called("write_rejects", "returned")

\* A run that raised in load_dataframe after reading and validating rows.
C14_Witness ==
    /\ pc = "run_raised"
    /\ Called("apply_schema", "returned")
    /\ Called("load_dataframe", "raised")
    /\ stats.rows_valid > 0
    /\ stats.status = "failed"
    /\ stats.error = "TypeError"

====
